---------------------------- MODULE Spec2Model ----------------------------
(***************************************************************************)
(* LPSolver (deyme17/LPSolver): the facade LPSolver.solve, the             *)
(* standard-form builder, BasicBFSFinder, SimplexTable and                 *)
(* SimplexAlgorithm.solve_from_bfs as a state machine.                     *)
(*                                                                         *)
(* Numbers.  The input coefficients are integers.  SimplexTable converts   *)
(* them with np.array(dtype=float); the model keeps them as exact          *)
(* rationals [n, d] in lowest terms with d > 0.  Column and row indices    *)
(* keep the 0-based values of the Python code; Seq positions are index+1.  *)
(* Operator strings are sequences of one-character strings, so that        *)
(* str.strip() is computed and not assumed.                                *)
(***************************************************************************)
EXTENDS Integers, Sequences, FiniteSets

\* ------------------------------------------------------------------ bounds

\* Largest variables_count of an input problem.
MaxVars == 2
\* Largest number of constraints of an input problem.
MaxCons == 2
\* Largest max_iterations a SimplexAlgorithm is constructed with.
MaxIterCap == 2
\* the calls of solve() made on one solver object
MaxCalls == 2
\* the pivot calls a caller makes on one SimplexTable it constructed
MaxPivots == 2

\* Values of an objective coefficient, a constraint coefficient, a free value.
ObjVals == {-1, 2}
CoefVals == {-1, 2}
FreeVals == {-1, 0, 2}

\* Python's None where a record or a list is expected (an absent list is never
\* confused with an empty one: no optional list of the program is empty)
None == <<>>
\* Python's None where a row or column index is expected
NoIndex == -1

\* ------------------------------------------------- utils/constants.py enums

MAXIMIZE == "OptimizationType.MAXIMIZE"
MINIMIZE == "OptimizationType.MINIMIZE"
OptimizationType == {MAXIMIZE, MINIMIZE}

OPTIMAL == "SolutionStatus.OPTIMAL"
INFEASIBLE == "SolutionStatus.INFEASIBLE"
UNBOUNDED == "SolutionStatus.UNBOUNDED"
ERROR == "SolutionStatus.ERROR"
SolutionStatus == {OPTIMAL, INFEASIBLE, UNBOUNDED, ERROR}

\* ------------------------------------------------------- operator strings

LE == <<"<", "=">>
GE == <<">", "=">>
EQ == <<"=">>
\* " <= ": the operator with surrounding whitespace
LEpadded == <<" ", "<", "=", " ">>
Operators == {LE, GE, EQ, LEpadded}

RECURSIVE lstrip(_)
lstrip(s) == IF s # <<>> /\ Head(s) = " " THEN lstrip(Tail(s)) ELSE s

RECURSIVE rstrip(_)
rstrip(s) ==
    IF s # <<>> /\ s[Len(s)] = " " THEN rstrip(SubSeq(s, 1, Len(s) - 1)) ELSE s

\* str.strip()
strip(s) == rstrip(lstrip(s))

\* ---------------------------------------------------------------- floats

RECURSIVE GCD(_, _)
GCD(a, b) == IF b = 0 THEN a ELSE GCD(b, a % b)

Abs(x) == IF x < 0 THEN -x ELSE x

\* The rational n/d (d # 0) in lowest terms with a positive denominator.
Rat(n, d) ==
    LET g == GCD(Abs(n), Abs(d))
        s == IF d < 0 THEN -1 ELSE 1
    IN  [n |-> s * (n \div g), d |-> s * (d \div g)]

\* float(k) of an integer k
Float(k) == [n |-> k, d |-> 1]
Zero == Float(0)
One == Float(1)

RAdd(x, y) == Rat(x.n * y.d + y.n * x.d, x.d * y.d)
RSub(x, y) == Rat(x.n * y.d - y.n * x.d, x.d * y.d)
RMul(x, y) == Rat(x.n * y.n, x.d * y.d)
\* x / y for y # 0
RDiv(x, y) == Rat(x.n * y.d, x.d * y.n)
RLt(x, y) == x.n * y.d < y.n * x.d
RLe(x, y) == x.n * y.d <= y.n * x.d

\* EPSILON = 1e-10 = 1 / (EpsRoot * EpsRoot); the comparisons with it are
\* computed without forming 10^10.
EpsRoot == 100000
\* x > EPSILON
GtEps(x) == x.n * EpsRoot > x.d \div EpsRoot
\* abs(x) < EPSILON
AbsLtEps(x) == Abs(x.n) * EpsRoot < (x.d + EpsRoot - 1) \div EpsRoot

\* sum of a sequence of rationals
RECURSIVE RSum(_)
RSum(s) == IF s = <<>> THEN Zero ELSE RAdd(Head(s), RSum(Tail(s)))

\* ------------------------------------------------ utils/containers.py

ConstraintData(coefficients, operator, free_val) ==
    [coefficients |-> coefficients, operator |-> operator, free_val |-> free_val]

LPProblem(optimization_type, objective_coefficients, constraints, variables_count) ==
    [optimization_type |-> optimization_type,
     objective_coefficients |-> objective_coefficients,
     constraints |-> constraints,
     variables_count |-> variables_count]

LPResult(status, optimal_value, solution, table, error_message) ==
    [status |-> status, optimal_value |-> optimal_value, solution |-> solution,
     table |-> table, error_message |-> error_message]

BFSolution(basis_indices, basic_values, full_solution) ==
    [basis_indices |-> basis_indices, basic_values |-> basic_values,
     full_solution |-> full_solution]

\* A mutant of is_feasible: every solution passes.
IsFeasibleAlways(bfs) == TRUE

\* BFSolution.is_feasible
is_feasible(bfs) ==
    \A i \in DOMAIN bfs.basic_values : bfs.basic_values[i] >= 0

\* The input problems.  Every one keeps the LPProblem invariant: the
\* objective and every constraint have variables_count coefficients.

\* all sequences of 1..MaxCons rows drawn from a set of rows
RowLists(rows) == UNION {[1..m -> rows] : m \in 1..MaxCons}

\* the coefficient vector 2, -1, -1, ...
Pattern(n) == [j \in 1..n |-> IF j = 1 THEN 2 ELSE -1]

\* Every operator with every sign of the free value, on fixed coefficients.
OperatorProblems ==
    UNION {
        { LPProblem(t, Pattern(n), cons, n) :
            t \in OptimizationType,
            cons \in RowLists({ ConstraintData(Pattern(n), op, f) :
                                  op \in Operators, f \in FreeVals }) }
        : n \in {MaxVars} }

\* Every coefficient matrix and objective, on "<=" rows with a free value >= 0.
TableauProblems ==
    UNION {
        { LPProblem(MAXIMIZE, obj, cons, n) :
            obj \in [1..n -> ObjVals],
            cons \in RowLists({ ConstraintData(a, LE, f) :
                                  a \in [1..n -> CoefVals],
                                  f \in {v \in FreeVals : v >= 0} }) }
        : n \in 1..MaxVars }

\* An empty objective, an empty constraint list, or both.
EmptyProblems ==
    { LPProblem(t, obj, cons, Len(obj)) :
        t \in OptimizationType,
        obj \in {<<>>, Pattern(MaxVars)},
        cons \in {<<>>, <<ConstraintData(Pattern(MaxVars), LE, 2)>>} }
    \ { LPProblem(t, Pattern(MaxVars),
                  <<ConstraintData(Pattern(MaxVars), LE, 2)>>, MaxVars) :
        t \in OptimizationType }

\* The problems of the integration tests: minimize -3 x1 - 2 x2 under
\* x1 + x2 <= 4, 2 x1 + x2 <= 5; maximize x1 + x2 under -x1 + x2 <= 1;
\* maximize x1 + 2 x2 under x1 + x2 <= 5, x1 + x2 >= 2, 2 x1 + x2 = 6.
MinimizationProblem ==
    LPProblem(MINIMIZE, <<-3, -2>>,
              <<ConstraintData(<<1, 1>>, LE, 4), ConstraintData(<<2, 1>>, LE, 5)>>, 2)
UnboundedProblem ==
    LPProblem(MAXIMIZE, <<1, 1>>, <<ConstraintData(<<-1, 1>>, LE, 1)>>, 2)
MixedProblem ==
    LPProblem(MAXIMIZE, <<1, 2>>,
              <<ConstraintData(<<1, 1>>, LE, 5), ConstraintData(<<1, 1>>, GE, 2),
                ConstraintData(<<2, 1>>, EQ, 6)>>, 2)
\* maximize 3 x1 + 5 x2 under x1 <= 4, 2 x2 <= 12, 3 x1 + 2 x2 <= 18
FeasibilityProblem ==
    LPProblem(MAXIMIZE, <<3, 5>>,
              <<ConstraintData(<<1, 0>>, LE, 4), ConstraintData(<<0, 2>>, LE, 12),
                ConstraintData(<<3, 2>>, LE, 18)>>, 2)
ScenarioProblems ==
    {MinimizationProblem, UnboundedProblem, MixedProblem, FeasibilityProblem}

Problems ==
    OperatorProblems \cup TableauProblems \cup EmptyProblems \cup ScenarioProblems

\* --------------------------------------- core/lp_solver.py: standard form

\* The outcome of a call: a returned value or a raised exception.
Returned(v) == [raised |-> FALSE, value |-> v]
Raised(msg) == [raised |-> TRUE, message |-> msg]

NegAll(coefs) == [j \in DOMAIN coefs |-> -coefs[j]]

\* slack_needed: the constraints whose operator, as given, is "<=" or ">="
SlackNeeded(constraints) ==
    Cardinality({i \in DOMAIN constraints : constraints[i].operator \in {LE, GE}})

\* Mutants of NormalizeSign: the free value keeps its sign; the operator is
\* not flipped.
NormalizeSignKeepsFreeVal(constraint) ==
    LET operator == strip(constraint.operator)
    IN  IF constraint.free_val < 0
        THEN [coefs |-> NegAll(constraint.coefficients),
              free_val |-> constraint.free_val,
              operator |-> IF operator = GE THEN LE
                           ELSE IF operator = LE THEN GE ELSE operator]
        ELSE [coefs |-> constraint.coefficients,
              free_val |-> constraint.free_val,
              operator |-> operator]
NormalizeSignKeepsOperator(constraint) ==
    LET operator == strip(constraint.operator)
    IN  IF constraint.free_val < 0
        THEN [coefs |-> NegAll(constraint.coefficients),
              free_val |-> -constraint.free_val,
              operator |-> operator]
        ELSE [coefs |-> constraint.coefficients,
              free_val |-> constraint.free_val,
              operator |-> operator]

\* The negative-free-value step on one constraint: the stripped operator,
\* then the multiplication by -1 with the operator flipped.
NormalizeSign(constraint) ==
    LET operator == strip(constraint.operator)
    IN  IF constraint.free_val < 0
        THEN [coefs |-> NegAll(constraint.coefficients),
              free_val |-> -constraint.free_val,
              operator |-> IF operator = GE THEN LE
                           ELSE IF operator = LE THEN GE ELSE operator]
        ELSE [coefs |-> constraint.coefficients,
              free_val |-> constraint.free_val,
              operator |-> operator]

\* A mutant of SlackVars: every slack entry goes to the first slack column.
SlackVarsFirstColumn(operator, slack_count, slack_needed) ==
    IF operator \in {LE, GE}
    THEN IF slack_count >= slack_needed
         THEN Raised(<<"list assignment index out of range">>)
         ELSE Returned([k \in 1..slack_needed |->
                          IF k = 1
                          THEN (IF operator = LE THEN 1 ELSE -1)
                          ELSE 0])
    ELSE Returned([k \in 1..slack_needed |-> 0])

\* slack_vars of one constraint: [0] * slack_needed with slack_vars[slack_count]
\* set; the assignment raises IndexError when slack_count >= slack_needed.
SlackVars(operator, slack_count, slack_needed) ==
    IF operator \in {LE, GE}
    THEN IF slack_count >= slack_needed
         THEN Raised(<<"list assignment index out of range">>)
         ELSE Returned([k \in 1..slack_needed |->
                          IF k = slack_count + 1
                          THEN (IF operator = LE THEN 1 ELSE -1)
                          ELSE 0])
    ELSE Returned([k \in 1..slack_needed |-> 0])

\* The loop over statement.constraints from position i on, with slack_count
\* slack columns already assigned.
RECURSIVE BuildConstraints(_, _, _, _)
BuildConstraints(constraints, i, slack_count, slack_needed) ==
    IF i > Len(constraints) THEN Returned(<<>>)
    ELSE LET c == NormalizeSign(constraints[i])
             slack_vars == SlackVars(c.operator, slack_count, slack_needed)
             next == BuildConstraints(constraints, i + 1,
                        IF c.operator \in {LE, GE} THEN slack_count + 1
                        ELSE slack_count,
                        slack_needed)
         IN  IF slack_vars.raised THEN slack_vars
             ELSE IF next.raised THEN next
             ELSE Returned(<<ConstraintData(c.coefs \o slack_vars.value, EQ,
                                            c.free_val)>> \o next.value)

\* LPSolver._build_standard_form
build_standard_form(statement) ==
    LET obj_coefs == IF statement.optimization_type = MINIMIZE
                     THEN NegAll(statement.objective_coefficients)
                     ELSE statement.objective_coefficients
        slack_needed == SlackNeeded(statement.constraints)
        constraints == BuildConstraints(statement.constraints, 1, 0, slack_needed)
    IN  IF constraints.raised THEN constraints
        ELSE Returned(LPProblem(MAXIMIZE,
                                obj_coefs \o [k \in 1..slack_needed |-> 0],
                                constraints.value,
                                Len(obj_coefs) + slack_needed))

\* ------------------------------------------------- core/bfs_finder.py

\* list(range(lo, hi))
Range(lo, hi) == [k \in 1..(IF hi > lo THEN hi - lo ELSE 0) |-> lo + k - 1]

\* BasicBFSFinder.find_initial_bfs
find_initial_bfs(standard_form) ==
    LET m == Len(standard_form.constraints)
        n == standard_form.variables_count
        basis_indices == Range(n, n + m)
        basic_values == [i \in 1..m |-> standard_form.constraints[i].free_val]
        \* the last assignment to a position wins; the indices are distinct
        full_solution == [p \in 1..(n + m) |->
            IF \E i \in 1..m : basis_indices[i] + 1 = p
            THEN basic_values[CHOOSE i \in 1..m : basis_indices[i] + 1 = p]
            ELSE 0]
    IN  BFSolution(basis_indices, basic_values, full_solution)

\* ---------------------------- utils/interfaces.py, core/simplex_table.py

\* LPProblem.get_A_matrix / get_b_vector and the objective as float arrays
AMatrix(problem) ==
    [i \in DOMAIN problem.constraints |->
        [j \in DOMAIN problem.constraints[i].coefficients |->
            Float(problem.constraints[i].coefficients[j])]]
BVector(problem) ==
    [i \in DOMAIN problem.constraints |-> Float(problem.constraints[i].free_val)]
CVector(problem) ==
    [j \in DOMAIN problem.objective_coefficients |->
        Float(problem.objective_coefficients[j])]

\* SimplexTable._build_headers
build_headers(problem) ==
    <<"X_basis", "ci", "B">>
        \o [i \in 1..problem.variables_count |-> <<"A", i>>] \o <<"Q">>

\* SimplexTable._compute_delta: delta_j = c_j - cB . A_j
compute_delta(t) ==
    [j \in DOMAIN t.c |->
        RSub(t.c[j],
             RSum([i \in DOMAIN t.basis |->
                     RMul(t.c[t.basis[i] + 1], t.A[i][j])]))]

\* A mutant of get_objective_value: the sum of b, without cB.
ObjectiveSumOfB(t) == RSum(t.b)

\* SimplexTable.get_objective_value: cB . b
get_objective_value(t) ==
    RSum([i \in DOMAIN t.basis |-> RMul(t.c[t.basis[i] + 1], t.b[i])])

\* SimplexTable._build_table: one row per basis entry, then the delta row
build_table(t) ==
    [i \in DOMAIN t.basis |->
        <<<<"A", t.basis[i] + 1>>, t.c[t.basis[i] + 1], t.b[i]>>
            \o t.A[i] \o <<"-">>]
    \o << <<"delta", "-", get_objective_value(t)>> \o compute_delta(t) \o <<"-">> >>

\* {"headers": self.headers, "data": self.table}
Snapshot(t) == [headers |-> t.headers, data |-> t.table]

\* ITable.__init__ for a SimplexTable.  c[bi] raises IndexError for a basis
\* index outside the objective; cB @ A raises ValueError when the basis and
\* the matrix disagree in length.
SimplexTable(problem, bfs) ==
    LET raw == [problem |-> problem, bfs |-> bfs,
                A |-> AMatrix(problem), b |-> BVector(problem),
                c |-> CVector(problem), basis |-> bfs.basis_indices,
                headers |-> build_headers(problem)]
    IN  IF \E i \in DOMAIN raw.basis : raw.basis[i] >= Len(raw.c)
        THEN Raised(<<"index out of bounds for axis 0">>)
        ELSE IF Len(raw.basis) > Len(raw.A)
        THEN Raised(<<"index out of bounds for axis 0">>)
        ELSE IF Len(raw.basis) # Len(raw.A)
        THEN Raised(<<"matmul: mismatch in its core dimension 0">>)
        ELSE LET built == [f \in DOMAIN raw \cup {"table"} |->
                             IF f = "table" THEN build_table(raw) ELSE raw[f]]
             IN  Returned([f \in DOMAIN built \cup {"iterations"} |->
                             IF f = "iterations" THEN <<Snapshot(built)>>
                             ELSE built[f]])

\* A mutant of is_optimal: only the first reduced cost is tested.
IsOptimalFirstColumn(t) == ~GtEps(compute_delta(t)[1])

\* SimplexTable.is_optimal: every delta_j <= EPSILON
is_optimal(t) ==
    LET delta == compute_delta(t)
    IN  \A j \in DOMAIN delta : ~GtEps(delta[j])

\* A mutant of get_entering_variable: the last column is never tested.
EnteringSkipsLast(t) ==
    LET delta == compute_delta(t)
        positive_delta == {j \in DOMAIN delta : j < Len(delta) /\ GtEps(delta[j])}
    IN  IF positive_delta = {} THEN NoIndex
        ELSE (CHOOSE j \in positive_delta : \A k \in positive_delta : j <= k) - 1

\* SimplexTable.get_entering_variable: np.argmax of the boolean array
\* delta > EPSILON, the first index at which it is true
get_entering_variable(t) ==
    LET delta == compute_delta(t)
        positive_delta == {j \in DOMAIN delta : GtEps(delta[j])}
    IN  IF positive_delta = {} THEN NoIndex
        ELSE (CHOOSE j \in positive_delta : \A k \in positive_delta : j <= k) - 1

\* A mutant of get_leaving_variable: the first row with an entry > EPSILON,
\* whatever its ratio.
LeavingFirstPositive(t, entering_col) ==
    LET positive == {i \in DOMAIN t.A : GtEps(t.A[i][entering_col + 1])}
    IN  IF positive = {} THEN NoIndex
        ELSE (CHOOSE i \in positive : \A k \in positive : i <= k) - 1

\* A mutant of get_leaving_variable: the row of maximal ratio.
LeavingMaxRatio(t, entering_col) ==
    LET column == [i \in DOMAIN t.A |-> t.A[i][entering_col + 1]]
        positive == {i \in DOMAIN column : GtEps(column[i])}
        ratio(i) == RDiv(t.b[i], column[i])
        maximal == {i \in positive : \A k \in positive : RLe(ratio(k), ratio(i))}
    IN  IF positive = {} THEN NoIndex
        ELSE (CHOOSE i \in maximal : \A k \in maximal : i <= k) - 1

\* A mutant of get_leaving_variable: no row ever leaves.
LeavingNone(t, entering_col) == NoIndex

\* SimplexTable.get_leaving_variable: the first row of minimal ratio
\* b / column among the rows with column > EPSILON
get_leaving_variable(t, entering_col) ==
    LET column == [i \in DOMAIN t.A |-> t.A[i][entering_col + 1]]
        positive == {i \in DOMAIN column : GtEps(column[i])}
        ratio(i) == RDiv(t.b[i], column[i])
        minimal == {i \in positive : \A k \in positive : RLe(ratio(i), ratio(k))}
    IN  IF positive = {} THEN NoIndex
        ELSE (CHOOSE i \in minimal : \A k \in minimal : i <= k) - 1

\* A mutant of save_iteration: nothing is appended.
SaveNothing(t) == t

\* A mutant of save_iteration: every entry of the history is the one live
\* table.
SaveAliased(t) ==
    [t EXCEPT !.iterations = [i \in 1..(Len(@) + 1) |-> Snapshot(t)]]

\* SimplexTable.save_iteration
save_iteration(t) == [t EXCEPT !.iterations = Append(@, Snapshot(t))]

\* The update of A and b in SimplexTable.pivot, applied to every row:
\* (current * pivot - entering_col * pivot_row) / pivot
PivotUpdate(t, leaving_row, entering_col) ==
    LET pivot_element == t.A[leaving_row + 1][entering_col + 1]
        pivot_row == t.A[leaving_row + 1]
        pivot_b == t.b[leaving_row + 1]
        entering_col_vec == [i \in DOMAIN t.A |-> t.A[i][entering_col + 1]]
    IN  [A |-> [i \in DOMAIN t.A |-> [j \in DOMAIN t.A[i] |->
                  RDiv(RSub(RMul(t.A[i][j], pivot_element),
                            RMul(entering_col_vec[i], pivot_row[j])),
                       pivot_element)]],
         b |-> [i \in DOMAIN t.b |->
                  RDiv(RSub(RMul(t.b[i], pivot_element),
                            RMul(entering_col_vec[i], pivot_b)),
                       pivot_element)]]

\* A mutant of pivot: the snapshot is saved before the pivot element is
\* checked.
PivotSavesBeforeCheck(t, leaving_row, entering_col) ==
    LET pivot_element == t.A[leaving_row + 1][entering_col + 1]
    IN  IF AbsLtEps(pivot_element)
        THEN [raised |-> TRUE,
              message |-> <<"Pivot element too close to zero: ", pivot_element>>,
              self |-> save_iteration(t)]
        ELSE LET new == PivotUpdate(t, leaving_row, entering_col)
                 moved == [t EXCEPT !.A = new.A, !.b = new.b,
                                    !.basis[leaving_row + 1] = entering_col]
                 shown == [moved EXCEPT !.table = build_table(moved)]
             IN  Returned(save_iteration(shown))

\* SimplexTable.pivot with its save_iteration; when it raises, self is the
\* object as the raise leaves it
pivot(t, leaving_row, entering_col) ==
    LET pivot_element == t.A[leaving_row + 1][entering_col + 1]
    IN  IF AbsLtEps(pivot_element)
        THEN [raised |-> TRUE,
              message |-> <<"Pivot element too close to zero: ", pivot_element>>,
              self |-> t]
        ELSE LET new == PivotUpdate(t, leaving_row, entering_col)
                 moved == [t EXCEPT !.A = new.A, !.b = new.b,
                                    !.basis[leaving_row + 1] = entering_col]
                 shown == [moved EXCEPT !.table = build_table(moved)]
             IN  Returned(save_iteration(shown))

\* SimplexTable.get_solution_vector; a later row overwrites an earlier one
get_solution_vector(t) ==
    LET n == t.problem.variables_count
        rows(p) == {i \in DOMAIN t.basis : t.basis[i] < n /\ t.basis[i] + 1 = p}
    IN  [p \in 1..n |->
            IF rows(p) = {} THEN Zero
            ELSE t.b[CHOOSE i \in rows(p) : \A k \in rows(p) : k <= i]]

\* ------------------------------------------------------------ the state

VARIABLES
    bfs_finder,       \* LPSolver.bfs_finder: "BasicBFSFinder" or "Injected"
    algorithm,        \* LPSolver.algorithm: kind, max_iterations,
                      \* iteration_count, table
    statement,        \* the argument of the running or last solve() call
    pc,               \* where solve() is: idle, build, find_bfs,
                      \* solve_from_bfs, loop, returned, raised
    standard_form,    \* solve()'s local standard_form
    initial_solution, \* solve()'s local initial_solution
    result,           \* the value solve() returned
    exception,        \* the exception solve() let through to its caller
    caught,           \* the message of the exception raised inside solve()
    trace,            \* the calls solve() has made, in order
    last_pivot,       \* the arguments of the last successful pivot
    calls,            \* the calls of solve() made on this solver so far
    previous,         \* the call before the running one: its statement,
                      \* initial_solution and result
    constructed,      \* the running call of solve_from_bfs has constructed
                      \* its SimplexTable
    simplex_table,    \* a SimplexTable a caller constructed and calls itself
    pivot_call        \* the last call of pivot on that table: its arguments,
                      \* whether it raised, the table before the call

vars == <<bfs_finder, algorithm, statement, pc, standard_form,
          initial_solution, result, exception, caught, trace, last_pivot,
          calls, previous, constructed, simplex_table, pivot_call>>

\* the variables of a SimplexTable used on its own
tablevars == <<simplex_table, pivot_call>>

\* Where solve() is after a step: its position, the value it returned, the
\* exception its caller sees, the exception raised inside it.
Outcome(p, r, e, c) == [pc |-> p, result |-> r, exception |-> e, caught |-> c]
Continue(p) == Outcome(p, None, None, None)
Return(r) == Outcome("returned", r, None, None)

\* A mutant of SolveExcept: no handler, the exception reaches the caller.
SolveExceptMissing(e) == Outcome("raised", None, e, e)

\* LPSolver.solve's except clause
SolveExcept(e) ==
    Outcome("returned",
            LPResult(ERROR, None, None, None, <<"Solver error: ">> \o e),
            None, e)

\* SimplexAlgorithm.solve_from_bfs's except clause, which solve() returns as is
AlgorithmExcept(table, e) ==
    Outcome("returned",
            LPResult(ERROR, None, None, table, <<"Algorithm error: ">> \o e),
            None, e)

\* SimplexAlgorithm._create_error_result / _create_unbounded_result /
\* _create_optimal_result, on the algorithm's current table
create_error_result(table, message) == LPResult(ERROR, None, None, table, message)
\* A mutant of create_unbounded_result: no error message.
CreateUnboundedSilent(table) == LPResult(UNBOUNDED, None, None, table, None)

create_unbounded_result(table) ==
    LPResult(UNBOUNDED, None, None, table, <<"Problem is unbounded">>)
create_optimal_result(table) ==
    LPResult(OPTIMAL, get_objective_value(table), get_solution_vector(table),
             table, None)

\* What an injected finder may do with a standard form: raise, or return m
\* consecutive columns as the basis with the free values as basic values, or
\* return a solution with a negative basic value.
InjectedFinderOutcomes(sf) ==
    LET m == Len(sf.constraints)
        n == sf.variables_count
        b == [i \in 1..m |-> sf.constraints[i].free_val]
    IN  {Raised(<<"finder failed">>)}
        \cup {Returned(BFSolution(Range(k, k + m), b, None)) : k \in 0..n}
        \cup {Returned(BFSolution(Range(n - m, n), [b EXCEPT ![1] = -1], None))}

\* What an injected algorithm may do: raise, or return a result.
InjectedAlgorithmOutcomes ==
    {Raised(<<"algorithm failed">>),
     Returned(LPResult(OPTIMAL, Zero, <<Zero>>, None, None)),
     Returned(LPResult(ERROR, None, None, None, <<"injected error">>))}

SimplexAlgorithm(max_iterations) ==
    [kind |-> "SimplexAlgorithm", max_iterations |-> max_iterations,
     iteration_count |-> 0, table |-> None]
InjectedAlgorithm ==
    [kind |-> "Injected", max_iterations |-> 0, iteration_count |-> 0,
     table |-> None]

\* LPSolver(bfs_finder, algorithm), no call made yet
Init ==
    /\ bfs_finder \in {"BasicBFSFinder", "Injected"}
    /\ algorithm \in {SimplexAlgorithm(k) : k \in 0..MaxIterCap}
                         \cup {InjectedAlgorithm}
    /\ statement = None
    /\ pc = "idle"
    /\ standard_form = None
    /\ initial_solution = None
    /\ result = None
    /\ exception = None
    /\ caught = None
    /\ trace = <<>>
    /\ last_pivot = None
    /\ calls = 0
    /\ previous = None
    /\ constructed = FALSE
    /\ simplex_table = None
    /\ pivot_call = None

Finish(o) ==
    /\ pc' = o.pc
    /\ result' = o.result
    /\ exception' = o.exception
    /\ caught' = o.caught

\* A mutant of IsEmpty: "and" for "or".
IsEmptyBoth(s) == s.objective_coefficients = <<>> /\ s.constraints = <<>>

\* not statement.objective_coefficients or not statement.constraints
IsEmpty(s) == s.objective_coefficients = <<>> \/ s.constraints = <<>>

\* The problems solve() is called with a second time on the same solver.
RepeatProblems == {p \in TableauProblems : p.variables_count = 1}

\* solve(statement) is called: the emptiness test of its first lines.  A
\* statement that is None raises AttributeError inside the try block.  The
\* locals of the call are fresh; the solver and its algorithm are as the
\* call before left them.
Call(s) ==
    /\ statement' = s
    /\ calls' = calls + 1
    /\ IF s = None
       THEN Finish(SolveExcept(
                <<"'NoneType' object has no attribute 'objective_coefficients'">>))
       ELSE IF IsEmpty(s)
       THEN Finish(Return(LPResult(ERROR, None, None, None,
                       <<"Empty objective function or constraints">>)))
       ELSE Finish(Continue("build"))
    /\ standard_form' = None
    /\ initial_solution' = None
    /\ trace' = <<>>
    /\ last_pivot' = None
    /\ constructed' = FALSE
    /\ UNCHANGED <<bfs_finder, algorithm>>
    /\ UNCHANGED tablevars

\* the first call of solve() on the solver
Solve(s) ==
    /\ pc = "idle"
    /\ previous' = None
    /\ Call(s)

\* solve() is called again, on the same solver with the same statement
SolveAgain ==
    /\ pc = "returned"
    /\ calls < MaxCalls
    /\ statement \in RepeatProblems
    /\ previous' = [statement |-> statement,
                    initial_solution |-> initial_solution,
                    result |-> result]
    /\ Call(statement)

\* standard_form = self._build_standard_form(statement)
BuildStandardForm ==
    /\ pc = "build"
    /\ trace' = Append(trace, "_build_standard_form")
    /\ LET built == build_standard_form(statement)
       IN  IF built.raised
           THEN Finish(SolveExcept(built.message)) /\ UNCHANGED standard_form
           ELSE /\ standard_form' = built.value
                /\ Finish(Continue("find_bfs"))
    /\ UNCHANGED <<bfs_finder, algorithm, statement, initial_solution,
                   last_pivot, calls, previous, constructed>>
    /\ UNCHANGED tablevars

\* initial_solution = self.bfs_finder.find_initial_bfs(standard_form) and the
\* is_feasible test that follows it
FoundBFS(found) ==
    /\ trace' = Append(trace, "find_initial_bfs")
    /\ IF found.raised
       THEN Finish(SolveExcept(found.message)) /\ UNCHANGED initial_solution
       ELSE /\ initial_solution' = found.value
            /\ IF ~is_feasible(found.value)
               THEN Finish(Return(LPResult(INFEASIBLE, None, None, None,
                                           <<"No initial BFS found">>)))
               ELSE Finish(Continue("solve_from_bfs"))
    /\ UNCHANGED <<bfs_finder, algorithm, statement, standard_form,
                   last_pivot, calls, previous, constructed>>
    /\ UNCHANGED tablevars

BasicFindBFS ==
    /\ pc = "find_bfs"
    /\ bfs_finder = "BasicBFSFinder"
    /\ FoundBFS(Returned(find_initial_bfs(standard_form)))

InjectedFindBFS ==
    /\ pc = "find_bfs"
    /\ bfs_finder = "Injected"
    /\ \E found \in InjectedFinderOutcomes(standard_form) : FoundBFS(found)

\* An injected algorithm's solve_from_bfs; solve() returns its result as is.
InjectedSolveFromBFS ==
    /\ pc = "solve_from_bfs"
    /\ algorithm.kind = "Injected"
    /\ trace' = Append(trace, "solve_from_bfs")
    /\ \E o \in InjectedAlgorithmOutcomes :
          IF o.raised THEN Finish(SolveExcept(o.message))
          ELSE Finish(Return(o.value))
    /\ UNCHANGED <<bfs_finder, algorithm, statement, standard_form,
                   initial_solution, last_pivot, calls, previous, constructed>>
    /\ UNCHANGED tablevars

\* A mutant of StartRun: iteration_count is not reset.
StartRunKeepsCount(self, table) == [self EXCEPT !.table = table]

\* self.table = SimplexTable(...); self.iteration_count = 0
StartRun(self, table) == [self EXCEPT !.table = table, !.iteration_count = 0]

\* SimplexAlgorithm.solve_from_bfs up to its loop: the table is constructed
\* and iteration_count reset; a failing constructor leaves self.table and
\* iteration_count as they were and is caught by solve_from_bfs itself.
ConstructTable ==
    /\ pc = "solve_from_bfs"
    /\ algorithm.kind = "SimplexAlgorithm"
    /\ trace' = Append(trace, "solve_from_bfs")
    /\ LET made == SimplexTable(standard_form, initial_solution)
       IN  IF made.raised
           THEN /\ Finish(AlgorithmExcept(algorithm.table, made.message))
                /\ UNCHANGED <<algorithm, constructed>>
           ELSE /\ algorithm' = StartRun(algorithm, made.value)
                /\ constructed' = TRUE
                /\ Finish(Continue("loop"))
    /\ UNCHANGED <<bfs_finder, statement, standard_form, initial_solution,
                   last_pivot, calls, previous>>
    /\ UNCHANGED tablevars

\* Mutants of CapReached: no cap, and a cap that is one pivot late.
CapNever(iteration_count, max_iterations) == FALSE
CapLate(iteration_count, max_iterations) == iteration_count > max_iterations

\* The test of the iteration cap in the loop of solve_from_bfs
CapReached(iteration_count, max_iterations) == iteration_count >= max_iterations

\* One pass of the while loop of solve_from_bfs, from its guard to the end of
\* its body, or the return that follows the loop.
Iterate ==
    /\ pc = "loop"
    /\ LET t == algorithm.table
           entering_col == get_entering_variable(t)
           leaving_row == get_leaving_variable(t, entering_col)
           moved == pivot(t, leaving_row, entering_col)
       IN  IF is_optimal(t)
           THEN /\ Finish(Return(create_optimal_result(t)))
                /\ UNCHANGED <<algorithm, last_pivot>>
           ELSE IF CapReached(algorithm.iteration_count, algorithm.max_iterations)
           THEN /\ Finish(Return(
                        create_error_result(t, <<"Max iterations exceeded">>)))
                /\ UNCHANGED <<algorithm, last_pivot>>
           ELSE IF entering_col = NoIndex
           THEN /\ Finish(Return(create_optimal_result(t)))
                /\ UNCHANGED <<algorithm, last_pivot>>
           ELSE IF leaving_row = NoIndex
           THEN /\ Finish(Return(create_unbounded_result(t)))
                /\ UNCHANGED <<algorithm, last_pivot>>
           ELSE IF moved.raised
           THEN /\ Finish(AlgorithmExcept(t, moved.message))
                /\ UNCHANGED <<algorithm, last_pivot>>
           ELSE /\ algorithm' = [algorithm EXCEPT
                                   !.table = moved.value,
                                   !.iteration_count = @ + 1]
                /\ last_pivot' = [leaving_row |-> leaving_row,
                                  entering_col |-> entering_col]
                /\ UNCHANGED <<pc, result, exception, caught>>
    /\ UNCHANGED <<bfs_finder, statement, standard_form, initial_solution, trace,
                   calls, previous, constructed>>
    /\ UNCHANGED tablevars

Next ==
    \/ \E s \in Problems \cup {None} : Solve(s)
    \/ SolveAgain
    \/ BuildStandardForm
    \/ BasicFindBFS
    \/ InjectedFindBFS
    \/ InjectedSolveFromBFS
    \/ ConstructTable
    \/ Iterate

Spec == Init /\ [][Next]_vars

\* ------------------------------------------- a SimplexTable on its own

\* the basis of the slack columns of a standard form
SlackBasis(sf) ==
    BFSolution(Range(sf.variables_count - Len(sf.constraints), sf.variables_count),
               [i \in DOMAIN sf.constraints |-> sf.constraints[i].free_val],
               None)

\* SimplexTable(problem, bfs) for the standard form of a problem with "<="
\* rows and its slack basis: a canonical tableau with b >= 0
CanonicalTables ==
    { SimplexTable(build_standard_form(p).value,
                   SlackBasis(build_standard_form(p).value)).value :
        p \in TableauProblems }

\* A caller has constructed a SimplexTable; no solver is involved.
TableInit ==
    /\ simplex_table \in CanonicalTables
    /\ pivot_call = None
    /\ bfs_finder = "BasicBFSFinder"
    /\ algorithm = SimplexAlgorithm(0)
    /\ statement = None
    /\ pc = "idle"
    /\ standard_form = None
    /\ initial_solution = None
    /\ result = None
    /\ exception = None
    /\ caught = None
    /\ trace = <<>>
    /\ last_pivot = None
    /\ calls = 0
    /\ previous = None
    /\ constructed = FALSE

\* table.pivot(leaving_row, entering_col), called by the holder of the
\* table with any row and column of the table
DirectPivot(leaving_row, entering_col) ==
    /\ simplex_table # None
    /\ Len(simplex_table.iterations) <= MaxPivots
    /\ LET moved == pivot(simplex_table, leaving_row, entering_col)
       IN  /\ simplex_table' = IF moved.raised THEN moved.self ELSE moved.value
           /\ pivot_call' = [leaving_row |-> leaving_row,
                             entering_col |-> entering_col,
                             raised |-> moved.raised,
                             before |-> simplex_table]
    /\ UNCHANGED <<bfs_finder, algorithm, statement, pc, standard_form,
                   initial_solution, result, exception, caught, trace,
                   last_pivot, calls, previous, constructed>>

TableNext ==
    \E leaving_row \in 0..(MaxCons - 1), entering_col \in 0..(MaxVars + MaxCons - 1) :
        /\ leaving_row < Len(simplex_table.A)
        /\ entering_col < Len(simplex_table.c)
        /\ DirectPivot(leaving_row, entering_col)

TableSpec == TableInit /\ [][TableNext]_vars

\* ------------------------------------------------------------ the claims

Last(seq) == seq[Len(seq)]

\* solve() was called with a well-formed statement and got past its
\* emptiness test and its call of _build_standard_form
BuildAttempted ==
    /\ statement # None
    /\ ~IsEmpty(statement)
    /\ pc \notin {"idle", "build"}

\* the inequality constraints of the statement, by the operator as given
Inequalities(constraints) ==
    {i \in DOMAIN constraints : constraints[i].operator \in {LE, GE}}

\* C1: LPSolver.solve never lets an exception through to its caller: whatever
\* was raised while validating, building the standard form, finding the BFS
\* or running the algorithm, solve() returns an LPResult, with status ERROR
\* when something was raised.
C1_SolveNeverRaises ==
    /\ pc # "raised"
    /\ exception = None
    /\ pc = "returned" => result # None /\ result.status \in SolutionStatus
    /\ caught # None => pc = "returned" /\ result.status = ERROR

\* C1's case: an exception raised by the finder or the algorithm, after the
\* standard form was built, came back as an ERROR result.
C1_Witness ==
    /\ pc = "returned"
    /\ caught # None
    /\ Len(trace) >= 2
    /\ result.status = ERROR

\* C2: an empty objective or an empty constraint list is answered with
\* ERROR "Empty objective function or constraints", before the standard form
\* is built and without a call of the finder or of the algorithm.
C2_EmptyRejected ==
    (statement # None /\ (statement.objective_coefficients = <<>> \/ statement.constraints = <<>>) /\ pc # "idle") =>
        /\ pc = "returned"
        /\ result = LPResult(ERROR, None, None, None,
                             <<"Empty objective function or constraints">>)
        /\ trace = <<>>
        /\ standard_form = None
        /\ initial_solution = None

\* C2's case: a statement with an objective and no constraint was rejected.
C2_Witness ==
    /\ pc = "returned"
    /\ statement # None
    /\ statement.objective_coefficients # <<>>
    /\ statement.constraints = <<>>
    /\ result.status = ERROR

\* C3: a standard form that was produced maximizes, has only "=" constraints
\* with free values >= 0, and has one variable more per "<=" or ">="
\* constraint of the input.
C3_StandardFormInvariants ==
    standard_form # None =>
        /\ standard_form.optimization_type = MAXIMIZE
        /\ \A i \in DOMAIN standard_form.constraints :
              /\ standard_form.constraints[i].operator = EQ
              /\ standard_form.constraints[i].free_val >= 0
        /\ standard_form.variables_count =
              statement.variables_count
                  + Cardinality(Inequalities(statement.constraints))

\* C3's case: a MINIMIZE problem with a negative free value and an
\* inequality was brought to standard form.
C3_Witness ==
    /\ standard_form # None
    /\ statement.optimization_type = MINIMIZE
    /\ \E i \in DOMAIN statement.constraints :
          statement.constraints[i].free_val < 0
    /\ Inequalities(statement.constraints) # {}

\* the operator of an input constraint after the negative-free-value flip
FlippedOperator(c) ==
    IF c.free_val < 0
    THEN (IF c.operator = LE THEN GE ELSE IF c.operator = GE THEN LE ELSE c.operator)
    ELSE c.operator

\* C4: with S inequality constraints, every output row is the (possibly
\* negated) input row followed by S slack entries, the objective ends in S
\* zeros, the k-th inequality has its one non-zero slack entry in slack column
\* k (+1 for "<=" after the flip, -1 for ">="), an equality has none, and so
\* every slack column holds exactly one non-zero entry.
C4_SlackColumns ==
    standard_form # None =>
        LET in == statement.constraints
            out == standard_form.constraints
            n == Len(statement.objective_coefficients)
            S == Cardinality(Inequalities(in))
            \* the position of constraint i among the inequalities
            k(i) == Cardinality({h \in Inequalities(in) : h <= i})
        IN  /\ Len(out) = Len(in)
            /\ Len(standard_form.objective_coefficients) = n + S
            /\ \A j \in 1..S : standard_form.objective_coefficients[n + j] = 0
            /\ \A i \in DOMAIN in :
                  /\ Len(out[i].coefficients) = n + S
                  /\ Len(out[i].coefficients) = standard_form.variables_count
                  /\ \A j \in 1..n :
                        out[i].coefficients[j] =
                            IF in[i].free_val < 0 THEN -in[i].coefficients[j]
                            ELSE in[i].coefficients[j]
                  /\ \A j \in 1..S :
                        out[i].coefficients[n + j] =
                            IF i \in Inequalities(in) /\ j = k(i)
                            THEN (IF FlippedOperator(in[i]) = LE THEN 1 ELSE -1)
                            ELSE 0
            /\ \A j \in 1..S :
                  Cardinality({i \in DOMAIN out : out[i].coefficients[n + j] # 0}) = 1

\* C4's case: two inequalities, one of each slack sign, got their own columns.
C4_Witness ==
    /\ standard_form # None
    /\ Cardinality(Inequalities(statement.constraints)) = 2
    /\ \E i, h \in DOMAIN statement.constraints :
          /\ FlippedOperator(statement.constraints[i]) = LE
          /\ FlippedOperator(statement.constraints[h]) = GE

\* C5: a constraint with a negative free value is multiplied by -1 and its
\* operator flipped before the slack sign is chosen; any other constraint is
\* taken as it is.
C5_NegativeFreeValue ==
    standard_form # None =>
        \A i \in DOMAIN statement.constraints :
            LET c == statement.constraints[i]
                o == standard_form.constraints[i]
                n == Len(c.coefficients)
                slack == {o.coefficients[j] :
                             j \in (n + 1)..Len(o.coefficients)} \ {0}
            IN  IF c.free_val < 0
                THEN /\ o.free_val = -c.free_val
                     /\ SubSeq(o.coefficients, 1, n) = NegAll(c.coefficients)
                     /\ c.operator = LE => slack = {-1}
                     /\ c.operator = GE => slack = {1}
                     /\ c.operator = EQ => slack = {}
                ELSE /\ o.free_val = c.free_val
                     /\ SubSeq(o.coefficients, 1, n) = c.coefficients
                     /\ c.operator = LE => slack = {1}
                     /\ c.operator = GE => slack = {-1}
                     /\ c.operator = EQ => slack = {}

\* C5's case: one constraint was flipped and another was not.
C5_Witness ==
    /\ standard_form # None
    /\ \E i, h \in DOMAIN statement.constraints :
          /\ statement.constraints[i].free_val < 0
          /\ statement.constraints[i].operator = LE
          /\ statement.constraints[h].free_val >= 0
          /\ statement.constraints[h].operator = LE

\* the statement with every operator string trimmed
Trimmed(s) ==
    [s EXCEPT !.constraints =
        [i \in DOMAIN @ |-> [@[i] EXCEPT !.operator = strip(@)]]]

\* C6: an operator with surrounding whitespace is treated like the trimmed
\* operator: building the standard form does not fail and gives the standard
\* form of the trimmed statement, slack column included.
C6_WhitespaceTolerated ==
    BuildAttempted =>
        /\ standard_form # None
        /\ standard_form = build_standard_form(Trimmed(statement)).value

\* C7: BasicBFSFinder returns the last m columns n-m .. n-1 as the basis, the
\* free values as basic values, and a full_solution of length n that is zero
\* except for the basic values at the basis positions; it is feasible when no
\* free value is negative.
C7_BasicBFSLastColumns ==
    (bfs_finder = "BasicBFSFinder" /\ initial_solution # None) =>
        LET m == Len(standard_form.constraints)
            n == standard_form.variables_count
            bfs == initial_solution
        IN  /\ bfs.basis_indices = Range(n - m, n)
            /\ \A i \in 1..m : bfs.basis_indices[i] \in 0..(n - 1)
            /\ bfs.basic_values =
                  [i \in 1..m |-> standard_form.constraints[i].free_val]
            /\ Len(bfs.full_solution) = n
            /\ \A p \in 1..n :
                  bfs.full_solution[p] =
                      IF \E i \in 1..m : bfs.basis_indices[i] + 1 = p
                      THEN bfs.basic_values[
                               CHOOSE i \in 1..m : bfs.basis_indices[i] + 1 = p]
                      ELSE 0
            /\ (\A i \in 1..m : standard_form.constraints[i].free_val >= 0)
                  => is_feasible(bfs)

\* C8: after a successful pivot(leaving_row, entering_col) the entering column
\* of A is the unit vector of leaving_row.
C8_EnteringColumnUnit ==
    last_pivot # None =>
        \A i \in DOMAIN algorithm.table.A :
            algorithm.table.A[i][last_pivot.entering_col + 1] =
                IF i = last_pivot.leaving_row + 1 THEN One ELSE Zero

\* solve() ran SimplexAlgorithm.solve_from_bfs and has its result
SimplexReturned ==
    /\ pc = "returned"
    /\ algorithm.kind = "SimplexAlgorithm"
    /\ Len(trace) = 3

MaxIterationsExceeded ==
    /\ result.status = ERROR
    /\ result.error_message = <<"Max iterations exceeded">>

\* the pivots performed on a table: its snapshots but the first
Pivots(t) == Len(t.iterations) - 1

\* C9: solve_from_bfs terminates: iteration_count and the number of pivots
\* never exceed max_iterations, and every pass of the loop either returns or
\* performs one pivot and adds one to iteration_count, so that
\* max_iterations - iteration_count bounds the passes that are left.
C9_Terminates ==
    /\ [](/\ algorithm.iteration_count <= algorithm.max_iterations
          /\ algorithm.table # None =>
                Pivots(algorithm.table) <= algorithm.max_iterations)
    /\ [][pc = "loop" =>
            \/ pc' = "returned"
            \/ /\ pc' = "loop"
               /\ algorithm'.iteration_count = algorithm.iteration_count + 1
               /\ Pivots(algorithm'.table) = Pivots(algorithm.table) + 1]_vars

\* C9's case: the iteration cap ended a run that had pivoted.
C9_Witness ==
    /\ SimplexReturned
    /\ MaxIterationsExceeded
    /\ algorithm.max_iterations >= 1
    /\ algorithm.iteration_count = algorithm.max_iterations

\* C10: "Max iterations exceeded" is returned exactly when the tableau is
\* not optimal after max_iterations pivots; a tableau that is optimal, also
\* one that became so on the max_iterations-th pivot, gives OPTIMAL; with
\* max_iterations = 0 the error comes without a pivot.
C10_MaxIterations ==
    SimplexReturned =>
        LET t == algorithm.table
        IN  /\ MaxIterationsExceeded <=>
                  /\ constructed
                  /\ ~is_optimal(t)
                  /\ Pivots(t) = algorithm.max_iterations
            /\ (constructed /\ is_optimal(t)) => result.status = OPTIMAL
            /\ (MaxIterationsExceeded /\ algorithm.max_iterations = 0) =>
                  Pivots(t) = 0 /\ last_pivot = None

\* C10's case: the tableau became optimal on the max_iterations-th pivot.
C10_Witness ==
    /\ SimplexReturned
    /\ result.status = OPTIMAL
    /\ algorithm.max_iterations >= 1
    /\ Pivots(algorithm.table) = algorithm.max_iterations
    /\ Pivots(algorithm.table) = algorithm.max_iterations

\* C11: solve_from_bfs returns UNBOUNDED, with the message "Problem is
\* unbounded" and the table of the run, exactly when the loop reaches a
\* table that is not optimal, is below the iteration cap, has an entering
\* column, and has no entry > EPSILON in that column; the step that returns
\* UNBOUNDED performs no pivot.
C11_Unbounded ==
    /\ [](SimplexReturned =>
            LET t == algorithm.table
                e == get_entering_variable(t)
            IN  /\ result.status = UNBOUNDED <=>
                      /\ constructed
                      /\ ~is_optimal(t)
                      /\ algorithm.iteration_count < algorithm.max_iterations
                      /\ e # NoIndex
                      /\ \A i \in DOMAIN t.A : ~GtEps(t.A[i][e + 1])
                /\ result.status = UNBOUNDED =>
                      /\ result.error_message = <<"Problem is unbounded">>
                      /\ result.table = t)
    /\ [][(pc = "loop" /\ pc' = "returned" /\ result'.status = UNBOUNDED) =>
            (algorithm' = algorithm /\ last_pivot' = last_pivot)]_vars

\* C11's case: UNBOUNDED was returned after a pivot, on a table whose
\* entering column has a negative entry.
C11_Witness ==
    /\ SimplexReturned
    /\ result.status = UNBOUNDED
    /\ Pivots(algorithm.table) >= 1
    /\ LET t == algorithm.table
           e == get_entering_variable(t)
       IN  \E i \in DOMAIN t.A : RLt(t.A[i][e + 1], Zero)

\* the reduced cost c_j - cB . A_j of column j (1-based) of a table
ReducedCost(t, j) ==
    RSub(t.c[j],
         RSum([i \in DOMAIN t.basis |-> RMul(t.c[t.basis[i] + 1], t.A[i][j])]))

\* C12: whenever solve_from_bfs returns OPTIMAL, the result carries the
\* terminal table, every reduced cost c_j - cB . A_j of that table is at
\* most EPSILON, and no column qualifies as entering variable.
C12_OptimalReducedCosts ==
    (SimplexReturned /\ result.status = OPTIMAL) =>
        LET t == result.table
        IN  /\ t # None
            /\ t = algorithm.table
            /\ \A j \in DOMAIN t.c : ~GtEps(ReducedCost(t, j))
            /\ get_entering_variable(t) = NoIndex

\* C12's case: OPTIMAL was returned after a pivot, on a table with a
\* negative reduced cost.
C12_Witness ==
    /\ SimplexReturned
    /\ result.status = OPTIMAL
    /\ Pivots(result.table) >= 1
    /\ \E j \in DOMAIN result.table.c : RLt(ReducedCost(result.table, j), Zero)

\* the result solve() returned is the one an injected algorithm made
FromInjectedAlgorithm ==
    /\ algorithm.kind = "Injected"
    /\ Len(trace) = 3
    /\ caught = None

\* C13: in every LPResult that solve() or SimplexAlgorithm builds,
\* optimal_value and solution are present exactly when the status is
\* OPTIMAL, and error_message is present exactly when the status is
\* INFEASIBLE, UNBOUNDED or ERROR.
C13_ResultFields ==
    (pc = "returned" /\ ~FromInjectedAlgorithm) =>
        /\ result.optimal_value # None <=> result.status = OPTIMAL
        /\ result.solution # None <=> result.status = OPTIMAL
        /\ result.error_message # None <=>
              result.status \in {INFEASIBLE, UNBOUNDED, ERROR}

\* C13's case: an UNBOUNDED result, with its message and without a value
\* or a solution.
C13_Witness ==
    /\ SimplexReturned
    /\ result.status = UNBOUNDED
    /\ result.error_message # None
    /\ result.optimal_value = None
    /\ result.solution = None

\* C14: a result of solve_from_bfs carries the table its own invocation
\* constructed, built from the standard form and the initial solution of
\* that invocation, and carries no table when the construction failed.
C14_TableOfThisInvocation ==
    SimplexReturned =>
        IF constructed
        THEN /\ result.table = algorithm.table
             /\ result.table.problem = standard_form
             /\ result.table.bfs = initial_solution
        ELSE result.table = None

\* C15: a second solve() on the same solver with the same problem, whose
\* finder gives the same answer as before, returns the status, optimal value
\* and solution of the first call, whatever table and iteration_count the
\* first call left in the SimplexAlgorithm; no step of solve() modifies the
\* problem it was given.
C15_SameResultTwice ==
    /\ []((/\ pc = "returned"
           /\ previous # None
           /\ algorithm.kind = "SimplexAlgorithm"
           /\ initial_solution = previous.initial_solution) =>
              /\ statement = previous.statement
              /\ result.status = previous.result.status
              /\ result.optimal_value = previous.result.optimal_value
              /\ result.solution = previous.result.solution)
    /\ [][pc \notin {"idle", "returned"} => statement' = statement]_vars

\* C15's case: the first call left a pivoted table and a positive
\* iteration_count behind, and the second call pivoted again to OPTIMAL.
C15_Witness ==
    /\ SimplexReturned
    /\ previous # None
    /\ initial_solution = previous.initial_solution
    /\ previous.result.status = OPTIMAL
    /\ constructed
    /\ algorithm.iteration_count >= 1
    /\ result.status = OPTIMAL

\* the objective of the statement as given, evaluated at its decision
\* variables in a solution vector
OriginalObjective(s, x) ==
    RSum([j \in DOMAIN s.objective_coefficients |->
            RMul(Float(s.objective_coefficients[j]), x[j])])

\* the finder returned the last m columns n-m .. n-1 as the basis
LastColumnsBasis ==
    /\ standard_form # None
    /\ initial_solution # None
    /\ initial_solution.basis_indices =
          Range(standard_form.variables_count - Len(standard_form.constraints),
                standard_form.variables_count)

\* C16: an OPTIMAL result for a MINIMIZE problem has as optimal_value the
\* original objective at the returned solution, and minimize -3 x1 - 2 x2
\* under x1 + x2 <= 4, 2 x1 + x2 <= 5 solved with BasicBFSFinder and
\* SimplexAlgorithm gives OPTIMAL, -9, x1 = 1, x2 = 3.
C16_MinimizeValue ==
    /\ (/\ SimplexReturned
        /\ LastColumnsBasis
        /\ statement.optimization_type = MINIMIZE
        /\ result.status = OPTIMAL) =>
            result.optimal_value = OriginalObjective(statement, result.solution)
    /\ (/\ SimplexReturned
        /\ statement = MinimizationProblem
        /\ bfs_finder = "BasicBFSFinder"
        /\ algorithm.max_iterations >= 2) =>
            /\ result.status = OPTIMAL
            /\ result.optimal_value = Float(-9)
            /\ result.solution[1] = Float(1)
            /\ result.solution[2] = Float(3)

\* a MAXIMIZE statement whose constraints are all "<=" with a free value >= 0
MaximizeLessEqual(s) ==
    /\ s.optimization_type = MAXIMIZE
    /\ \A i \in DOMAIN s.constraints :
          /\ s.constraints[i].operator = LE
          /\ s.constraints[i].free_val >= 0

\* the left-hand side of constraint i of a statement at a solution vector
LeftHandSide(s, i, x) ==
    RSum([j \in DOMAIN s.constraints[i].coefficients |->
            RMul(Float(s.constraints[i].coefficients[j]), x[j])])

C18_SolutionLength ==
    (SimplexReturned /\ LastColumnsBasis /\ result.status = OPTIMAL) =>
        Len(result.solution) = statement.variables_count

\* C19: maximize x1 + 2 x2 under x1 + x2 <= 5, x1 + x2 >= 2, 2 x1 + x2 = 6,
\* solved with BasicBFSFinder and SimplexAlgorithm, gives OPTIMAL with an
\* optimal value and a solution.
C19_MixedConstraints ==
    (/\ pc = "returned"
     /\ statement = MixedProblem
     /\ bfs_finder = "BasicBFSFinder"
     /\ algorithm.kind = "SimplexAlgorithm"
     /\ algorithm.max_iterations = MaxIterCap) =>
        /\ result.status = OPTIMAL
        /\ result.optimal_value # None
        /\ result.solution # None

\* C20: the history of a SimplexTable holds one snapshot, the initial table,
\* after construction, and every successful pivot appends one snapshot, the
\* table after that pivot; nothing else changes it.  So its length is 1 +
\* the number of successful pivots, its first entry is the initial table
\* and its last entry is the current table.
C20_History ==
    /\ [](algorithm.table # None =>
            LET t == algorithm.table
            IN  /\ Len(t.iterations) = 1 + algorithm.iteration_count
                /\ t.iterations[1] =
                      [headers |-> build_headers(t.problem),
                       data |-> SimplexTable(t.problem, t.bfs).value.table]
                /\ Last(t.iterations) = [headers |-> t.headers, data |-> t.table])
    /\ [][algorithm'.table # algorithm.table =>
            \/ /\ ~constructed
               /\ constructed'
               /\ Len(algorithm'.table.iterations) = 1
            \/ /\ pc = "loop"
               /\ last_pivot' # None
               /\ algorithm'.iteration_count = algorithm.iteration_count + 1
               /\ algorithm'.table.iterations =
                     Append(algorithm.table.iterations,
                            [headers |-> algorithm'.table.headers,
                             data |-> algorithm'.table.table])]_vars

\* C20's case: a table that was pivoted twice holds three snapshots.
C20_Witness ==
    /\ algorithm.table # None
    /\ algorithm.iteration_count = 2
    /\ Len(algorithm.table.iterations) = 3
    /\ algorithm.table.iterations[2] # algorithm.table.iterations[3]

\* C21: when the finder returned a solution with a negative basic value,
\* solve() returns INFEASIBLE with "No initial BFS found" and has not called
\* solve_from_bfs; when it returned any other solution, solve() has called
\* solve_from_bfs once, after _build_standard_form and find_initial_bfs, and
\* returns the result of that call as it is.
C21_InfeasibleOrDelegate ==
    (pc = "returned" /\ initial_solution # None) =>
        IF \E i \in DOMAIN initial_solution.basic_values :
               initial_solution.basic_values[i] < 0
        THEN /\ result = LPResult(INFEASIBLE, None, None, None,
                                  <<"No initial BFS found">>)
             /\ trace = <<"_build_standard_form", "find_initial_bfs">>
             /\ ~constructed
        ELSE /\ trace = <<"_build_standard_form", "find_initial_bfs",
                          "solve_from_bfs">>
             /\ algorithm.kind = "SimplexAlgorithm" =>
                   /\ result.table = algorithm.table
                   /\ result.status = ERROR =>
                         result.error_message[1] # "Solver error: "
             /\ (algorithm.kind = "Injected" /\ caught = None) =>
                   Returned(result) \in InjectedAlgorithmOutcomes

\* C21's case: a finder returned a negative basic value to a solver with a
\* SimplexAlgorithm, and solve() returned INFEASIBLE.
C21_Witness ==
    /\ pc = "returned"
    /\ initial_solution # None
    /\ \E i \in DOMAIN initial_solution.basic_values :
          initial_solution.basic_values[i] < 0
    /\ algorithm.kind = "SimplexAlgorithm"
    /\ result.status = INFEASIBLE

\* C22: a failure raised while SimplexAlgorithm constructs its table or
\* pivots surfaces from solve() as an ERROR result whose message is
\* "Solver error: " followed by the message of the failure.
C22_SolverErrorPrefix ==
    (SimplexReturned /\ caught # None) =>
        /\ result.status = ERROR
        /\ result.error_message = <<"Solver error: ">> \o caught

\* column basis[i] of A is 1 in row i and 0 in every other row
Canonical(t) ==
    \A i \in DOMAIN t.basis : \A k \in DOMAIN t.A :
        t.A[k][t.basis[i] + 1] = IF k = i THEN One ELSE Zero

\* C23: a pivot of solve_from_bfs on a tableau that is canonical for its
\* basis gives a tableau that is canonical for the updated basis, with
\* pairwise distinct basis indices inside 0 .. variables_count - 1.
C23_CanonicalPreserved ==
    [][(/\ pc = "loop"
        /\ algorithm'.table # algorithm.table
        /\ Canonical(algorithm.table)) =>
            LET t == algorithm'.table
            IN  /\ Canonical(t)
                /\ \A i, k \in DOMAIN t.basis :
                      i # k => t.basis[i] # t.basis[k]
                /\ \A i \in DOMAIN t.basis :
                      t.basis[i] \in 0..(t.problem.variables_count - 1)]_vars

\* C24: get_entering_variable returns none when no reduced cost exceeds
\* EPSILON, and otherwise the column of the largest reduced cost, the lowest
\* index among the columns tied for it.
C24_EnteringLargest ==
    algorithm.table # None =>
        LET t == algorithm.table
            e == get_entering_variable(t)
            largest == {j \in DOMAIN t.c :
                          \A k \in DOMAIN t.c :
                              RLe(ReducedCost(t, k), ReducedCost(t, j))}
        IN  IF \A j \in DOMAIN t.c : ~GtEps(ReducedCost(t, j))
            THEN e = NoIndex
            ELSE /\ e + 1 \in largest
                 /\ \A j \in largest : e + 1 <= j

\* the rows of a table with an entry > EPSILON in column col (0-based)
PositiveRows(t, col) == {i \in DOMAIN t.A : GtEps(t.A[i][col + 1])}

\* b[i] / A[i, col] for row i (1-based) and column col (0-based)
Ratio(t, i, col) == RDiv(t.b[i], t.A[i][col + 1])

\* C25: for every column of every table, get_leaving_variable returns none
\* exactly when no row has an entry > EPSILON in the column; otherwise it
\* returns a row with such an entry whose ratio b / entry is minimal among
\* those rows, the lowest index among the rows tied for the minimum.
C25_LeavingMinRatio ==
    algorithm.table # None =>
        LET t == algorithm.table
        IN  \A col \in 0..(Len(t.c) - 1) :
                LET r == get_leaving_variable(t, col)
                    positive == PositiveRows(t, col)
                IN  /\ r = NoIndex <=> positive = {}
                    /\ r # NoIndex =>
                          /\ r + 1 \in positive
                          /\ \A k \in positive :
                                /\ RLe(Ratio(t, r + 1, col), Ratio(t, k, col))
                                /\ Ratio(t, k, col) = Ratio(t, r + 1, col)
                                      => r + 1 <= k

\* C25's case: the loop's entering column has an entry > EPSILON in both
\* rows, and the second row has the smaller ratio and leaves.
C25_Witness ==
    /\ pc = "loop"
    /\ ~is_optimal(algorithm.table)
    /\ LET t == algorithm.table
           e == get_entering_variable(t)
       IN  /\ PositiveRows(t, e) = {1, 2}
           /\ get_leaving_variable(t, e) = 1
           /\ RLt(Ratio(t, 2, e), Ratio(t, 1, e))

\* the element pivot(leaving_row, entering_col) was called on
PivotElement(call) == call.before.A[call.leaving_row + 1][call.entering_col + 1]

\* |x| < EPSILON for the fraction x.n / x.d with EPSILON = 1 / EpsRoot^2:
\* |x.n| * EpsRoot^2 < x.d, in integers
BelowEpsilon(x) ==
    (IF x.n < 0 THEN -x.n ELSE x.n) <= ((x.d - 1) \div EpsRoot) \div EpsRoot

\* C26: a call of pivot(leaving_row, entering_col) raises its ValueError
\* exactly when |A[leaving_row, entering_col]| < EPSILON, and then A, b, the
\* basis, the current table and the history are as they were before the
\* call, no snapshot appended.
C26_InvalidPivot ==
    pivot_call # None =>
        /\ pivot_call.raised <=> BelowEpsilon(PivotElement(pivot_call))
        /\ pivot_call.raised =>
              /\ simplex_table.A = pivot_call.before.A
              /\ simplex_table.b = pivot_call.before.b
              /\ simplex_table.basis = pivot_call.before.basis
              /\ simplex_table.table = pivot_call.before.table
              /\ simplex_table.iterations = pivot_call.before.iterations
        /\ ~pivot_call.raised =>
              Len(simplex_table.iterations) = Len(pivot_call.before.iterations) + 1

C26_Witness ==
    /\ pivot_call # None
    /\ pivot_call.raised
    /\ Len(simplex_table.iterations) > 1

\* C27: a call of pivot leaves every snapshot already in the history as it
\* was, headers and rows, whether it appends a snapshot or raises; so no
\* later pivot alters a snapshot an earlier one appended.
C27_SnapshotsKept ==
    [][simplex_table # None =>
          \A i \in DOMAIN simplex_table.iterations :
              /\ i \in DOMAIN simplex_table'.iterations
              /\ simplex_table'.iterations[i].headers =
                    simplex_table.iterations[i].headers
              /\ simplex_table'.iterations[i].data =
                    simplex_table.iterations[i].data]_vars

\* C27's case: two pivots were appended to the initial snapshot, and the
\* three snapshots differ from one another.
C27_Witness ==
    /\ simplex_table # None
    /\ Len(simplex_table.iterations) = 3
    /\ simplex_table.iterations[1] # simplex_table.iterations[2]
    /\ simplex_table.iterations[2] # simplex_table.iterations[3]
    /\ simplex_table.iterations[1] # simplex_table.iterations[3]
    /\ simplex_table.iterations[1] =
          Snapshot(SimplexTable(simplex_table.problem, simplex_table.bfs).value)

\* C28: on every table of solve_from_bfs, is_optimal() is false exactly when
\* some reduced cost exceeds EPSILON, which is exactly when
\* get_entering_variable returns a column; and an OPTIMAL result of
\* solve_from_bfs is returned on a table for which is_optimal() is true.
C28_EnteringExists ==
    algorithm.table # None =>
        LET t == algorithm.table
        IN  /\ ~is_optimal(t) <=> \E j \in DOMAIN t.c : GtEps(ReducedCost(t, j))
            /\ ~is_optimal(t) <=> get_entering_variable(t) \in 0..(Len(t.c) - 1)
            /\ is_optimal(t) <=> get_entering_variable(t) = NoIndex
            /\ (SimplexReturned /\ constructed /\ result.status = OPTIMAL) =>
                  is_optimal(t)

\* C28's case: the loop is at a table that was pivoted and is not optimal,
\* with an entering column.
C28_Witness ==
    /\ pc = "loop"
    /\ Pivots(algorithm.table) >= 1
    /\ ~is_optimal(algorithm.table)
    /\ get_entering_variable(algorithm.table) # NoIndex

\* the table as SimplexTable(problem, bfs) constructed it
InitialTable(t) == SimplexTable(t.problem, t.bfs).value

\* the table was constructed canonical for its basis with every b[i] >= 0
StartedCanonical(t) ==
    /\ Canonical(InitialTable(t))
    /\ \A i \in DOMAIN InitialTable(t).b : RLe(Zero, InitialTable(t).b[i])

\* C29: on every table of a run of solve_from_bfs that started from a
\* canonical tableau with every b[i] >= 0, every b[i] is >= 0 and the
\* solution vector has no negative component.
C29_Feasible ==
    (constructed /\ StartedCanonical(algorithm.table)) =>
        LET t == algorithm.table
        IN  /\ \A i \in DOMAIN t.b : RLe(Zero, t.b[i])
            /\ \A p \in DOMAIN get_solution_vector(t) :
                  RLe(Zero, get_solution_vector(t)[p])

\* C29's case: such a run pivoted on a column with two positive entries of
\* different ratios, and a right-hand side is still positive.
C29_Witness ==
    /\ constructed
    /\ StartedCanonical(algorithm.table)
    /\ Pivots(algorithm.table) >= 1
    /\ \E i \in DOMAIN algorithm.table.b : RLt(Zero, algorithm.table.b[i])
    /\ LET t0 == InitialTable(algorithm.table)
           e == get_entering_variable(t0)
       IN  /\ PositiveRows(t0, e) = {1, 2}
           /\ Ratio(t0, 1, e) # Ratio(t0, 2, e)

\* C30: in a run of solve_from_bfs that started from a canonical tableau
\* with b >= 0, a pivot never decreases get_objective_value(), and increases
\* it when the ratio b / A of the leaving row in the entering column is
\* positive.
C30_ObjectiveIncreases ==
    [][(/\ pc = "loop"
        /\ algorithm'.table # algorithm.table
        /\ StartedCanonical(algorithm.table)) =>
            LET t == algorithm.table
                l == last_pivot'.leaving_row
                e == last_pivot'.entering_col
            IN  /\ RLe(get_objective_value(t), get_objective_value(algorithm'.table))
                /\ RLt(Zero, Ratio(t, l + 1, e)) =>
                      RLt(get_objective_value(t),
                          get_objective_value(algorithm'.table))]_vars

====
